---------------------------- MODULE Spec2Model ----------------------------
(***************************************************************************)
(* Model of the transcript pipeline of meleellm:                           *)
(*   - the chunker loop of process_single_video      (src/parse.py)        *)
(*   - the fan-out/fan-in of process_videos          (src/parse.py)        *)
(*   - save_processed_videos / load_processed_videos (parse.py, vectordb)  *)
(*   - create_or_load_collection and build_database  (vectordb, build_db)  *)
(*   - format_timestamp                              (all three files)     *)
(*                                                                         *)
(* A Python str is a sequence of one-character strings, so that " " + x,   *)
(* str.split, str.strip and " ".join are computed and not assumed.         *)
(* A float number of seconds is an integer number of tenths of a second:   *)
(* 5.0 is 50 and 3725.9 is 37259.                                          *)
(***************************************************************************)
EXTENDS Integers, Sequences, FiniteSets, TLC

VARIABLES
    \* ---- the chunker: process_single_video, parse.py:76-114
    transcript,      \* the entries YouTubeTranscriptApi.get_transcript returned
    chunk_size,      \* parameter chunk_size (target word count)
    overlap,         \* parameter overlap (entries carried to the next chunk)
    idx,             \* position of the for loop: next entry to read, 1-based
    chunks,          \* list chunks
    current_chunk,   \* list current_chunk
    current_text,    \* str current_text
    chunk_start,     \* chunk_start: <<>> is None, <<t>> is the number t
    ck_pc,           \* "idle" | "loop" | "done" | "failed"
    seeded,          \* history: how many entries of current_chunk were carried over
    windows,         \* history: per emitted chunk, the accumulator it was cut from
                     \* and the position of the entry that closed it
    \* ---- format_timestamp, vectordb.py:80-85 (= parse.py:36-41, build_db.py:8-13)
    ft_seconds,      \* the argument seconds, in tenths of a second
    ft_out,          \* the str returned
    ft_pc,           \* "idle" | "call" | "returned"
    \* ---- process_videos, parse.py:132-152
    urls,            \* parameter urls
    max_concurrent,  \* parameter max_concurrent (max_workers of the executor)
    pv_pc,           \* "idle" | "submit" | "gather" | "returned" | "raised"
    tasks,           \* list tasks: per future its url, state and outcome, and as
                     \* history how often it was run and when it finished
    pv_returned,     \* what the caller of process_videos has: <<>> or <<results>>
    \* ---- save_processed_videos (parse.py:173-182), load_processed_videos
    \*      (vectordb.py:14-17)
    sv_results,      \* parameter results
    sv_file,         \* the pickle file: <<>> when absent, else <<its content>>
    sv_loaded,       \* what load_processed_videos returned: <<>> or <<list>>
    sv_pc,           \* "idle" | "save" | "load" | "done"
    \* ---- create_or_load_collection (vectordb.py:19-78) and build_database
    \*      (build_db.py:15-80) on the persistent Chroma store
    db_exists,       \* the store holds the collection "video_transcripts"
    db_docs,         \* its records [id, document, metadata], in insertion order
    batch_size,      \* local batch_size (500 in vectordb.py, 1000 in build_db.py)
    in_kind,         \* the running call: "create_or_load" | "build_database" | "none"
    in_chunks,       \* parameter chunks (build_database: the loaded list)
    in_pc,           \* position in the call, see the actions
    documents,       \* list documents
    metadatas,       \* list metadatas
    ids,             \* list ids
    in_i,            \* loop variable i of the batch loop
    in_call,         \* the number of the running call, 0 before the first
    in_found,        \* local existing_count: <<>> when get_collection raised
    in_log,          \* history: the store calls the running call has made
    db_before,       \* history: the store's records when the call began
    in_prev          \* history: <<>>, or <<the call before: its kind, chunks and
                     \* outcome, how many add-calls it made and whether it
                     \* deleted or created the collection>>

chunkerVars == <<transcript, chunk_size, overlap, idx, chunks, current_chunk,
                 current_text, chunk_start, ck_pc, seeded, windows>>

formatVars == <<ft_seconds, ft_out, ft_pc>>

videosVars == <<urls, max_concurrent, pv_pc, tasks, pv_returned>>

serialVars == <<sv_results, sv_file, sv_loaded, sv_pc>>

ingestVars == <<db_exists, db_docs, batch_size, in_kind, in_chunks, in_pc,
                documents, metadatas, ids, in_i, in_call, in_found, in_log,
                db_before, in_prev>>

vars == <<chunkerVars, formatVars, videosVars, serialVars, ingestVars>>

-----------------------------------------------------------------------------
(* Bounds of the model *)

MaxEntries == 3
MaxTarget == 4
MaxOverlap == 2
MaxTenths == 40000
MaxUrls == 3
MaxWorkers == 2
MaxVideos == 2
MaxChunksPerVideo == 2
MaxChunks == 3
MaxBatch == 2
MaxIngests == 2

-----------------------------------------------------------------------------
(* Program constants *)

\* process_single_video(url, chunk_size=300, overlap=100)
DefaultChunkSize == 300
DefaultOverlap == 100
\* parse.py:132: max_concurrent: int = 5
DefaultMaxConcurrent == 5

-----------------------------------------------------------------------------
(* Python values *)

Min(a, b) == IF a < b THEN a ELSE b
Max(a, b) == IF a > b THEN a ELSE b

\* str.isspace for the characters the model uses
IsSpace(c) == c \in {" ", "\n"}

\* str.split() with no argument: the maximal runs of non-whitespace
RECURSIVE SplitAcc(_, _, _, _)
SplitAcc(s, i, cur, acc) ==
    IF i > Len(s)
    THEN IF cur = <<>> THEN acc ELSE Append(acc, cur)
    ELSE IF IsSpace(s[i])
         THEN SplitAcc(s, i + 1, <<>>, IF cur = <<>> THEN acc ELSE Append(acc, cur))
         ELSE SplitAcc(s, i + 1, Append(cur, s[i]), acc)

Split(s) == SplitAcc(s, 1, <<>>, <<>>)

\* str.strip(): leading and trailing whitespace removed
RECURSIVE LStrip(_)
LStrip(s) == IF s # <<>> /\ IsSpace(Head(s)) THEN LStrip(Tail(s)) ELSE s

RECURSIVE RStrip(_)
RStrip(s) ==
    IF s # <<>> /\ IsSpace(s[Len(s)]) THEN RStrip(SubSeq(s, 1, Len(s) - 1)) ELSE s

Strip(s) == RStrip(LStrip(s))

\* " ".join(e['text'] for e in entries)
RECURSIVE JoinTexts(_)
JoinTexts(entries) ==
    IF entries = <<>> THEN <<>>
    ELSE IF Len(entries) = 1 THEN entries[1].text
    ELSE entries[1].text \o <<" ">> \o JoinTexts(Tail(entries))

\* lst[k:] for any integer k (negative k counts from the end)
SliceFrom(lst, k) ==
    LET n == Len(lst)
        from == IF k < 0 THEN Max(n + k, 0) ELSE Min(k, n)
    IN  SubSeq(lst, from + 1, n)

\* format spec 02d of a non-negative int: decimal digits, zero-padded to two
DigitChars == <<"0", "1", "2", "3", "4", "5", "6", "7", "8", "9">>

RECURSIVE Decimal(_)
Decimal(n) ==
    IF n < 10 THEN <<DigitChars[n + 1]>>
    ELSE Decimal(n \div 10) \o <<DigitChars[(n % 10) + 1]>>

Format02d(n) == IF n < 10 THEN <<"0">> \o Decimal(n) ELSE Decimal(n)

\* truth value of chunk_start: None and 0 (0.0) are both false
Truthy(cs) == cs # <<>> /\ cs[1] # 0

-----------------------------------------------------------------------------
(* The chunker of process_single_video *)

\* the dict appended to chunks, parse.py:90-97 and 107-114
MakeChunk(text, start, end, video) ==
    [text |-> Strip(text), start_time |-> start, end_time |-> end,
     video_title |-> video.title, video_url |-> video.url, video_id |-> video.video_id]

OverlapEntriesDroppingOldest(cur, ov) ==
    IF ov >= Len(cur) THEN Tail(cur) ELSE SliceFrom(cur, 0 - ov)

\* current_chunk[-overlap:], parse.py:100
OverlapEntries(cur, ov) == SliceFrom(cur, 0 - ov)

\* parse.py:82-83
NextChunkStart(cs, entry) == IF ~Truthy(cs) THEN <<entry.start>> ELSE cs

\* parse.py:89
ReachedTarget(text, size) == Len(Split(text)) >= size

ClosedEndTimeNoStart(entry) == entry.duration

\* parse.py:93
ClosedEndTime(entry) == entry.start + entry.duration

\* parse.py:110
FinalEndTime(cur) == cur[Len(cur)].start + cur[Len(cur)].duration

EmitsFinalForgotten(cur) == FALSE

\* parse.py:106
EmitsFinal(cur) == cur # <<>>

\* dict access entry[k]: a KeyError when the entry has no such key
HasKeys(d, ks) == ks \subseteq DOMAIN d

\* One iteration of `for entry in transcript`, parse.py:81-103, on the locals
\* st = [chunks, current_chunk, current_text, chunk_start, raised]; video is
\* the metadata and url of the video.
\* entry['text'] raises KeyError on an entry without that key and
\* overlap_entries[0] raises IndexError when the slice is empty: the locals
\* then stay as they were at the raise and raised is set.
ChunkStep(st, entry, size, ov, video) ==
    IF ~HasKeys(entry, {"text", "start", "duration"})
    THEN [st EXCEPT !.raised = TRUE]
    ELSE
    LET cs   == NextChunkStart(st.chunk_start, entry)
        text == st.current_text \o <<" ">> \o entry.text
        cur  == Append(st.current_chunk, entry)
        kept == OverlapEntries(cur, ov)
    IN  IF ReachedTarget(text, size)
        THEN [chunks |-> Append(st.chunks, MakeChunk(text, cs[1], ClosedEndTime(entry), video)),
              current_chunk |-> kept,
              current_text |-> JoinTexts(kept),
              chunk_start |-> IF kept = <<>> THEN cs ELSE <<kept[1].start>>,
              raised |-> kept = <<>>]
        ELSE [chunks |-> st.chunks,
              current_chunk |-> cur,
              current_text |-> text,
              chunk_start |-> cs,
              raised |-> FALSE]

\* parse.py:105-114: the chunks list as returned
FinalChunks(st, video) ==
    IF EmitsFinal(st.current_chunk)
    THEN Append(st.chunks, MakeChunk(st.current_text, st.chunk_start[1],
                                     FinalEndTime(st.current_chunk), video))
    ELSE st.chunks

\* parse.py:76-79
ChunkLocals0 ==
    [chunks |-> <<>>, current_chunk |-> <<>>, current_text |-> <<>>,
     chunk_start |-> <<>>, raised |-> FALSE]

\* the VideoMetadata get_video_metadata builds for url, parse.py:54-60
VideoMetadata(url) ==
    [title |-> "title", url |-> url, video_id |-> url, duration |-> 0,
     upload_date |-> "date"]

\* the video the chunker on its own runs on
TheVideo == VideoMetadata("url")

Locals == [chunks |-> chunks, current_chunk |-> current_chunk,
           current_text |-> current_text, chunk_start |-> chunk_start,
           raised |-> ck_pc = "failed"]

\* the loop body as a step of the running chunker
ChunkEntry ==
    /\ ck_pc = "loop"
    /\ idx <= Len(transcript)
    /\ \E st \in {ChunkStep(Locals, transcript[idx], chunk_size, overlap, TheVideo)} :
       LET closed == Len(st.chunks) > Len(chunks)
       IN  /\ chunks' = st.chunks
           /\ current_chunk' = st.current_chunk
           /\ current_text' = st.current_text
           /\ chunk_start' = st.chunk_start
           /\ ck_pc' = IF st.raised THEN "failed" ELSE "loop"
           /\ idx' = IF st.raised THEN idx ELSE idx + 1
           /\ windows' = IF closed
                         THEN Append(windows,
                                [entries |-> Append(current_chunk, transcript[idx]),
                                 final |-> FALSE, carried |-> seeded, at |-> idx])
                         ELSE windows
           /\ seeded' = IF closed THEN Len(st.current_chunk) ELSE seeded
    /\ UNCHANGED <<transcript, chunk_size, overlap>>
    /\ UNCHANGED <<formatVars, videosVars, serialVars, ingestVars>>

\* After the loop: the last chunk and the return, parse.py:105-126
ChunkFinish ==
    /\ ck_pc = "loop"
    /\ idx > Len(transcript)
    /\ chunks' = FinalChunks(Locals, TheVideo)
    /\ windows' = IF Len(chunks') > Len(chunks)
                  THEN Append(windows,
                         [entries |-> current_chunk, final |-> TRUE, carried |-> seeded,
                          at |-> Len(transcript)])
                  ELSE windows
    /\ ck_pc' = "done"
    /\ UNCHANGED <<transcript, chunk_size, overlap, idx, current_chunk,
                   current_text, chunk_start, seeded>>
    /\ UNCHANGED <<formatVars, videosVars, serialVars, ingestVars>>

\* The caption texts the model draws entries from: the two of the spec's
\* scenario, an empty caption, and one with a line break and doubled blanks.
TextPool ==
    { <<"a", " ", "b", " ", "c">>,
      <<"d", " ", "e", " ", "f">>,
      <<>>,
      <<" ", "g", "\n", " ", "h">> }

\* The (start, duration) of an entry, in tenths of a second: the two of the
\* spec's scenario, 0.0+5.0 and 5.0+5.0, and a caption of no duration.
TimePool == { <<0, 50>>, <<50, 50>>, <<50, 0>> }

Entries ==
    { [text |-> t, start |-> sd[1], duration |-> sd[2]] :
         t \in TextPool, sd \in TimePool }

\* transcripts are ordered by start time
Ordered(t) == \A i \in 1..(Len(t) - 1) : t[i].start <= t[i + 1].start

Transcripts ==
    UNION { {t \in [1..n -> Entries] : Ordered(t)} : n \in 0..MaxEntries }

\* parse.py:76-79
ChunkerInit ==
    /\ transcript \in Transcripts
    /\ chunk_size \in 0..MaxTarget
    /\ overlap \in (0 - 1)..MaxOverlap
    /\ idx = 1
    /\ chunks = <<>>
    /\ current_chunk = <<>>
    /\ current_text = <<>>
    /\ chunk_start = <<>>
    /\ ck_pc = "loop"
    /\ seeded = 0
    /\ windows = <<>>

ChunkerIdle ==
    /\ transcript = <<>> /\ chunk_size = 0 /\ overlap = 0 /\ idx = 1
    /\ chunks = <<>> /\ current_chunk = <<>> /\ current_text = <<>>
    /\ chunk_start = <<>> /\ ck_pc = "idle" /\ seeded = 0 /\ windows = <<>>

ChunkerNext == ChunkEntry \/ ChunkFinish

-----------------------------------------------------------------------------
(* format_timestamp *)

format_timestamp_rounded(seconds) ==
    LET hours   == seconds \div 36000
        minutes == (seconds % 36000) \div 600
        secs    == ((seconds % 600) + 5) \div 10
    IN  Format02d(hours) \o <<":">> \o Format02d(minutes) \o <<":">> \o Format02d(secs)

\* vectordb.py:80-85, with seconds in tenths: seconds // 3600 is
\* tenths \div 36000, and int() of a non-negative float is its floor
format_timestamp(seconds) ==
    LET hours   == seconds \div 36000
        minutes == (seconds % 36000) \div 600
        secs    == (seconds % 600) \div 10
    IN  Format02d(hours) \o <<":">> \o Format02d(minutes) \o <<":">> \o Format02d(secs)

\* the arguments tried: every tenth up to MaxTenths (3725.9 among them) and
\* the values around 100 hours
FormatInputs == (0..MaxTenths) \cup {3599999, 3600000, 3600009}

FormatInit ==
    /\ ft_seconds \in FormatInputs
    /\ ft_out = <<>>
    /\ ft_pc = "call"

FormatIdle == ft_seconds = 0 /\ ft_out = <<>> /\ ft_pc = "idle"

FormatCall ==
    /\ ft_pc = "call"
    /\ ft_out' = format_timestamp(ft_seconds)
    /\ ft_pc' = "returned"
    /\ UNCHANGED ft_seconds
    /\ UNCHANGED <<chunkerVars, videosVars, serialVars, ingestVars>>

FormatNext == FormatCall

-----------------------------------------------------------------------------
(* process_single_video as a whole, and process_videos *)

\* None
None == <<>>

\* the loop of parse.py:81-103 over a whole transcript, stopping at a raise
RECURSIVE ChunkFold(_, _, _, _, _, _)
ChunkFold(st, tr, i, size, ov, video) ==
    IF st.raised \/ i > Len(tr) THEN st
    ELSE ChunkFold(ChunkStep(st, tr[i], size, ov, video), tr, i + 1, size, ov, video)

\* The try block of process_single_video, parse.py:68-126. meta is what
\* get_video_metadata returned (None after a failed fetch, parse.py:61-63),
\* fetched is what get_transcript did: [ok |-> FALSE] when it raised, else
\* the entries. The outcome is a return of a value or a raise.
ProcessBody(url, meta, fetched, size, ov) ==
    IF meta = None THEN [kind |-> "return", val |-> None]
    ELSE IF ~fetched.ok THEN [kind |-> "raise", val |-> None]
    ELSE LET st == ChunkFold(ChunkLocals0, fetched.entries, 1, size, ov, meta[1])
         IN  IF st.raised THEN [kind |-> "raise", val |-> None]
             ELSE [kind |-> "return",
                   val |-> << [metadata |-> [title |-> meta[1].title,
                                             url |-> url,
                                             video_id |-> meta[1].video_id,
                                             duration |-> meta[1].duration,
                                             upload_date |-> meta[1].upload_date,
                                             processed_date |-> "now"],
                               chunks |-> FinalChunks(st, meta[1])] >>]

process_single_video_no_except(url, meta, fetched, size, ov) ==
    ProcessBody(url, meta, fetched, size, ov)

\* parse.py:65-130: `except Exception` turns every raise into return None
process_single_video(url, meta, fetched, size, ov) ==
    LET r == ProcessBody(url, meta, fetched, size, ov)
    IN  IF r.kind = "raise" THEN [kind |-> "return", val |-> None] ELSE r

\* what the video platform may answer for a url
MetaAnswers(url) == { None, <<VideoMetadata(url)>> }

BadTranscript == << [text |-> <<"a">>, start |-> 0, duration |-> 50],
                    [start |-> 50, duration |-> 50] >>

TranscriptAnswers ==
    { [ok |-> FALSE, entries |-> <<>>],
      [ok |-> TRUE, entries |-> << [text |-> <<"a", " ", "b">>, start |-> 0,
                                    duration |-> 50] >>],
      [ok |-> TRUE, entries |-> BadTranscript] }

UrlPool == {"u1", "u2"}

UrlLists == UNION { [1..n -> UrlPool] : n \in 0..MaxUrls }

VideosInit ==
    /\ urls \in UrlLists
    /\ max_concurrent \in (1..MaxWorkers) \cup {DefaultMaxConcurrent}
    /\ pv_pc = "submit"
    /\ tasks = <<>>
    /\ pv_returned = None

VideosIdle ==
    /\ urls = <<>> /\ max_concurrent = 1 /\ pv_pc = "idle" /\ tasks = <<>>
    /\ pv_returned = None

\* One iteration of `for url in urls`, parse.py:142-144: the work item is
\* queued in the executor.
Submit ==
    /\ pv_pc = "submit"
    /\ Len(tasks) < Len(urls)
    /\ tasks' = Append(tasks,
          [url |-> urls[Len(tasks) + 1], state |-> "queued", runs |-> 0, fin |-> 0,
           meta |-> None, fetched |-> [ok |-> FALSE, entries |-> <<>>],
           out |-> [kind |-> "return", val |-> None]])
    /\ UNCHANGED <<urls, max_concurrent, pv_pc, pv_returned>>
    /\ UNCHANGED <<chunkerVars, formatVars, serialVars, ingestVars>>

\* The loop is over: the coroutine reaches `await asyncio.gather(*tasks)`
EndSubmit ==
    /\ pv_pc = "submit"
    /\ Len(tasks) = Len(urls)
    /\ pv_pc' = "gather"
    /\ UNCHANGED <<urls, max_concurrent, tasks, pv_returned>>
    /\ UNCHANGED <<chunkerVars, formatVars, serialVars, ingestVars>>

\* the work items a worker thread is executing
Running == {i \in 1..Len(tasks) : tasks[i].state = "running"}

QueuedOrFailedOnce ==
    {i \in 1..Len(tasks) :
        \/ tasks[i].state = "queued"
        \/ tasks[i].state = "done" /\ tasks[i].out.val = None /\ tasks[i].runs < 2}

\* the work items in the executor's queue, not yet taken by a worker
Queued == {i \in 1..Len(tasks) : tasks[i].state = "queued"}

WorkerFreeUnbounded(n) == TRUE

\* ThreadPoolExecutor(max_workers=max_concurrent), parse.py:137: at most
\* max_workers threads, so a work item starts only while fewer are busy
WorkerFree(n) == Cardinality(Running) < n

\* A worker thread takes the oldest queued work item and calls
\* process_single_video(url), parse.py:143
StartTask ==
    /\ Queued # {}
    /\ WorkerFree(max_concurrent)
    /\ LET i == CHOOSE j \in Queued : \A k \in Queued : j <= k
       IN  tasks' = [tasks EXCEPT ![i].state = "running", ![i].runs = @ + 1]
    /\ UNCHANGED <<urls, max_concurrent, pv_pc, pv_returned>>
    /\ UNCHANGED <<chunkerVars, formatVars, serialVars, ingestVars>>

\* process_single_video(url) runs to its end in its worker thread, on the
\* answers the platform gives, and the future is settled; without metadata
\* it returns at parse.py:70 and no transcript is asked for
FinishTask ==
    /\ \E i \in Running :
       \E meta \in MetaAnswers(tasks[i].url) :
       \E fetched \in IF meta = None THEN {tasks[i].fetched} ELSE TranscriptAnswers :
          tasks' = [tasks EXCEPT
                      ![i].state = "done",
                      ![i].fin = 1 + Cardinality({j \in 1..Len(tasks) :
                                                    tasks[j].state = "done"}),
                      ![i].meta = meta,
                      ![i].fetched = fetched,
                      ![i].out = process_single_video(tasks[i].url, meta, fetched,
                                    DefaultChunkSize, DefaultOverlap)]
    /\ UNCHANGED <<urls, max_concurrent, pv_pc, pv_returned>>
    /\ UNCHANGED <<chunkerVars, formatVars, serialVars, ingestVars>>

GatherReadyFirstCompleted(ts) == \E i \in 1..Len(ts) : ts[i].state = "done"

\* asyncio.gather(*tasks), parse.py:147: resumes the coroutine once every
\* future is settled (a raise in one is passed on, and leaving the `with`
\* block then waits for the rest: shutdown(wait=True))
GatherReady(ts) == \A i \in 1..Len(ts) : ts[i].state = "done"

CompletedResultsAsCompleted(ts) ==
    [k \in 1..Len(ts) |->
        IF \E i \in 1..Len(ts) : ts[i].state = "done" /\ ts[i].fin = k
        THEN ts[CHOOSE i \in 1..Len(ts) : ts[i].state = "done" /\ ts[i].fin = k].out.val
        ELSE None]

\* the list gather returns, in the order of its arguments
CompletedResults(ts) ==
    [i \in 1..Len(ts) |-> IF ts[i].state = "done" THEN ts[i].out.val ELSE None]

\* [r for r in completed_results if r is not None], parse.py:150
RECURSIVE FilterNotNone(_)
FilterNotNone(rs) ==
    IF rs = <<>> THEN <<>>
    ELSE IF Head(rs) = None THEN FilterNotNone(Tail(rs))
    ELSE <<Head(rs)[1]>> \o FilterNotNone(Tail(rs))

\* parse.py:147-152: gather, filter, leave the `with` block, return
GatherAndReturn ==
    /\ pv_pc = "gather"
    /\ GatherReady(tasks)
    /\ IF \E i \in 1..Len(tasks) : tasks[i].state = "done" /\ tasks[i].out.kind = "raise"
       THEN /\ pv_pc' = "raised"
            /\ pv_returned' = None
       ELSE /\ pv_pc' = "returned"
            /\ pv_returned' = <<FilterNotNone(CompletedResults(tasks))>>
    /\ UNCHANGED <<urls, max_concurrent, tasks>>
    /\ UNCHANGED <<chunkerVars, formatVars, serialVars, ingestVars>>

VideosNext == Submit \/ EndSubmit \/ StartTask \/ FinishTask \/ GatherAndReturn

-----------------------------------------------------------------------------
(* save_processed_videos and load_processed_videos *)

all_chunks_last_only(results) ==
    IF results = <<>> THEN <<>>
    ELSE LET r == results[Len(results)]
         IN  IF "chunks" \in DOMAIN r THEN r.chunks ELSE <<>>

\* parse.py:176-179: all_chunks.extend(result['chunks']) for every result
\* that has chunks
RECURSIVE all_chunks(_)
all_chunks(results) ==
    IF results = <<>> THEN <<>>
    ELSE LET r    == results[Len(results)]
             rest == all_chunks(SubSeq(results, 1, Len(results) - 1))
         IN  IF "chunks" \in DOMAIN r THEN rest \o r.chunks ELSE rest

\* the keys of a chunk dict in the order they were inserted, parse.py:90-97
ChunkKeys ==
    <<"text", "start_time", "end_time", "video_title", "video_url", "video_id">>

KeysOf(d) == SelectSeq(ChunkKeys, LAMBDA k : k \in DOMAIN d)

\* pickle.dump, parse.py:182, as the opcodes the pickler writes: a str as
\* BINUNICODE, a float as BINFLOAT, a dict as EMPTY_DICT MARK key value ...
\* SETITEMS, a list as EMPTY_LIST and APPEND (one item) or MARK ... APPENDS.
PickleLeaf(k, v) ==
    IF k \in {"start_time", "end_time"}
    THEN [op |-> "BINFLOAT", arg |-> v]
    ELSE [op |-> "BINUNICODE", arg |-> v]

RECURSIVE PickleItems(_, _)
PickleItems(d, ks) ==
    IF ks = <<>> THEN <<>>
    ELSE << [op |-> "BINUNICODE", arg |-> Head(ks)], PickleLeaf(Head(ks), d[Head(ks)]) >>
         \o PickleItems(d, Tail(ks))

PickleDict(d) ==
    IF KeysOf(d) = <<>> THEN << [op |-> "EMPTY_DICT", arg |-> 0] >>
    ELSE << [op |-> "EMPTY_DICT", arg |-> 0], [op |-> "MARK", arg |-> 0] >>
         \o PickleItems(d, KeysOf(d)) \o << [op |-> "SETITEMS", arg |-> 0] >>

RECURSIVE PickleDicts(_)
PickleDicts(l) == IF l = <<>> THEN <<>> ELSE PickleDict(Head(l)) \o PickleDicts(Tail(l))

PickleDump(l) ==
    << [op |-> "EMPTY_LIST", arg |-> 0] >>
    \o (IF l = <<>> THEN <<>>
        ELSE IF Len(l) = 1 THEN PickleDict(l[1]) \o << [op |-> "APPEND", arg |-> 0] >>
        ELSE << [op |-> "MARK", arg |-> 0] >> \o PickleDicts(l)
             \o << [op |-> "APPENDS", arg |-> 0] >>)
    \o << [op |-> "STOP", arg |-> 0] >>

\* pickle.load, vectordb.py:17, as the unpickler's stack machine. A stack
\* slot is [t |-> "mark"] or [t |-> "obj", v |-> the object].
Mark == [t |-> "mark", v |-> 0]
Obj(v) == [t |-> "obj", v |-> v]

\* index of the topmost mark of the stack
TopMark(stack) == CHOOSE m \in 1..Len(stack) :
                     /\ stack[m].t = "mark"
                     /\ \A j \in (m + 1)..Len(stack) : stack[j].t # "mark"

\* d[k] = v for the key/value slots in turn
RECURSIVE SetItems(_, _)
SetItems(d, slots) ==
    IF slots = <<>> THEN d
    ELSE LET k == slots[1].v
             v == slots[2].v
         IN  SetItems([x \in (DOMAIN d) \cup {k} |-> IF x = k THEN v ELSE d[x]],
                      SubSeq(slots, 3, Len(slots)))

EmptyDict == [x \in {} |-> 0]

\* one opcode applied to the stack
UnpickleStep(o, stack) ==
    LET n == Len(stack)
    IN  CASE o.op = "EMPTY_LIST" -> Append(stack, Obj(<<>>))
          [] o.op = "EMPTY_DICT" -> Append(stack, Obj(EmptyDict))
          [] o.op = "MARK" -> Append(stack, Mark)
          [] o.op \in {"BINUNICODE", "BINFLOAT"} -> Append(stack, Obj(o.arg))
          [] o.op = "APPEND" ->
                Append(SubSeq(stack, 1, n - 2), Obj(Append(stack[n - 1].v, stack[n].v)))
          [] o.op = "APPENDS" ->
                LET m == TopMark(stack)
                    items == [j \in 1..(n - m) |-> stack[m + j].v]
                IN  Append(SubSeq(stack, 1, m - 2), Obj(stack[m - 1].v \o items))
          [] o.op = "SETITEMS" ->
                LET m == TopMark(stack)
                IN  Append(SubSeq(stack, 1, m - 2),
                           Obj(SetItems(stack[m - 1].v, SubSeq(stack, m + 1, n))))
          [] o.op = "STOP" -> stack

\* the opcodes blob[lo..hi] applied in turn to the stack; the range is halved
\* and the stack after the first half computed before the second half runs,
\* which keeps the evaluation shallow
RECURSIVE Unpickle(_, _, _, _)
Unpickle(blob, lo, hi, stack) ==
    IF lo > hi THEN stack
    ELSE IF lo = hi THEN UnpickleStep(blob[lo], stack)
    ELSE LET mid == (lo + hi) \div 2
         IN  CHOOSE after \in
                { Unpickle(blob, mid + 1, hi, half) :
                    half \in {Unpickle(blob, lo, mid, stack)} } : TRUE

\* at STOP the object on top of the stack is the result
PickleLoad(blob) ==
    LET stack == Unpickle(blob, 1, Len(blob), <<>>)
    IN  stack[Len(stack)].v

\* chunks the model saves: one of a video, and one without text of another
ChunkPool ==
    { [text |-> <<"a", " ", "b">>, start_time |-> 0, end_time |-> 37259,
       video_title |-> "title", video_url |-> "u1", video_id |-> "u1"],
      [text |-> <<>>, start_time |-> 50, end_time |-> 50,
       video_title |-> "title", video_url |-> "u2", video_id |-> "u2"] }

ChunkLists(n) == UNION { [1..k -> ChunkPool] : k \in 0..n }

\* the results process_videos may hand over, and a dict without 'chunks'
VideoResults ==
    { [metadata |-> "metadata", chunks |-> cs] : cs \in ChunkLists(MaxChunksPerVideo) }
    \cup { [metadata |-> "metadata"] }

SerialInit ==
    /\ sv_results \in UNION { [1..n -> VideoResults] : n \in 0..MaxVideos }
    /\ sv_file = <<>>
    /\ sv_loaded = <<>>
    /\ sv_pc = "save"

SerialIdle ==
    sv_results = <<>> /\ sv_file = <<>> /\ sv_loaded = <<>> /\ sv_pc = "idle"

\* save_processed_videos(results), parse.py:173-182
Save ==
    /\ sv_pc = "save"
    /\ sv_file' = <<PickleDump(all_chunks(sv_results))>>
    /\ sv_pc' = "load"
    /\ UNCHANGED <<sv_results, sv_loaded>>
    /\ UNCHANGED <<chunkerVars, formatVars, videosVars, ingestVars>>

\* load_processed_videos(pickle_file), vectordb.py:14-17
Load ==
    /\ sv_pc = "load"
    /\ sv_file # <<>>
    /\ sv_loaded' = <<PickleLoad(sv_file[1])>>
    /\ sv_pc' = "done"
    /\ UNCHANGED <<sv_results, sv_file>>
    /\ UNCHANGED <<chunkerVars, formatVars, videosVars, ingestVars>>

SerialNext == Save \/ Load

-----------------------------------------------------------------------------
(* create_or_load_collection and build_database *)

UpToDateAtMost(existing_count, n) == existing_count <= n

UpToDateAtLeast(existing_count, n) == existing_count >= n

UpToDateNever(existing_count, n) == FALSE

\* vectordb.py:32: existing_count == len(chunks)
UpToDate(existing_count, n) == existing_count = n

\* the keys read from a chunk, vectordb.py:53-61 and build_db.py:50-58
RequiredKeys == {"text", "video_title", "video_url", "video_id", "start_time", "end_time"}

\* vectordb.py:55-62, build_db.py:52-59
Metadata(chunk) ==
    [video_title |-> chunk.video_title,
     video_url |-> chunk.video_url,
     video_id |-> chunk.video_id,
     start_time |-> chunk.start_time,
     end_time |-> chunk.end_time,
     timestamp |-> format_timestamp(chunk.start_time) \o <<" ", "-", " ">>
                   \o format_timestamp(chunk.end_time)]

\* chunk[k] raises KeyError for some chunk of cs
AnyKeyError(cs) == \E k \in 1..Len(cs) : ~HasKeys(cs[k], RequiredKeys)

BatchSliceShort(lst, i, end_idx) == SubSeq(lst, i + 1, end_idx - 1)

\* lst[i:end_idx], vectordb.py:72-74
BatchSlice(lst, i, end_idx) == SubSeq(lst, i + 1, end_idx)

\* vectordb.py:70, build_db.py:41
EndIdx(i, bs, n) == Min(i + bs, n)

\* str(uuid.uuid4()), vectordb.py:52: an identifier no other chunk of any
\* call gets; the one of the k-th chunk of the call-th call
Uuid4(call, k) == <<call, k>>

\* collection.add(documents=, metadatas=, ids=): the records are stored
StoreAdd(docs, ds, ms, is) ==
    docs \o [j \in 1..Len(is) |-> [id |-> is[j], document |-> ds[j], metadata |-> ms[j]]]

LogAdd(ds, ms, is) == [op |-> "add", documents |-> ds, metadatas |-> ms, ids |-> is]
LogOp(name) == [op |-> name, documents |-> <<>>, metadatas |-> <<>>, ids |-> <<>>]

\* The chunk lists handed to an ingest: the k-th chunk of variant v ("a" or
\* "b": same count, other content), and lists whose last chunk has no
\* 'end_time'.
GoodChunk(v, k) ==
    [text |-> <<v, DigitChars[k + 1]>>, video_title |-> "title",
     video_url |-> "u1", video_id |-> "u1",
     start_time |-> 600 * k, end_time |-> 600 * k + 37259]

BadChunk(v, k) ==
    [text |-> <<v, DigitChars[k + 1]>>, video_title |-> "title",
     video_url |-> "u1", video_id |-> "u1", start_time |-> 600 * k]

ChunkSets ==
    { [k \in 1..n |-> GoodChunk(v, k)] : v \in {"a", "b"}, n \in 0..MaxChunks }
    \cup { [k \in 1..n |-> IF k = n THEN BadChunk("a", k) ELSE GoodChunk("a", k)] :
              n \in 1..MaxChunks }

IngestInit ==
    /\ db_exists = FALSE
    /\ db_docs = <<>>
    /\ batch_size \in 1..MaxBatch
    /\ in_kind = "none"
    /\ in_chunks = <<>>
    /\ in_pc = "idle"
    /\ documents = <<>> /\ metadatas = <<>> /\ ids = <<>>
    /\ in_i = 0
    /\ in_call = 0
    /\ in_found = <<>>
    /\ in_log = <<>>
    /\ db_before = <<>>
    /\ in_prev = <<>>

IngestIdle == IngestInit /\ batch_size = 1

\* the store as IngestInit has it, and no ingesting program run at all
IngestOff ==
    /\ db_exists = FALSE /\ db_docs = <<>> /\ batch_size = 1
    /\ in_kind = "none" /\ in_chunks = <<>> /\ in_pc = "off"
    /\ documents = <<>> /\ metadatas = <<>> /\ ids = <<>>
    /\ in_i = 0 /\ in_call = 0 /\ in_found = <<>> /\ in_log = <<>>
    /\ db_before = <<>> /\ in_prev = <<>>

\* a call has ended: returned, raised to its caller, or the process was killed
Ended == in_pc \in {"returned", "raised", "aborted"}

\* what every new call starts from
BeginCall(kind, cs, pc) ==
    /\ in_pc = "idle" \/ Ended
    /\ in_call < MaxIngests
    /\ in_call' = in_call + 1
    /\ in_prev' = IF Ended
                  THEN << [kind |-> in_kind, chunks |-> in_chunks, outcome |-> in_pc,
                           adds |-> Len(SelectSeq(in_log, LAMBDA e : e.op = "add")),
                           made |-> \E k \in 1..Len(in_log) :
                                      in_log[k].op \in {"delete_collection",
                                                        "create_collection", "rmtree"}] >>
                  ELSE <<>>
    /\ in_kind' = kind
    /\ in_chunks' = cs
    /\ in_pc' = pc
    /\ documents' = <<>> /\ metadatas' = <<>> /\ ids' = <<>>
    /\ in_i' = 0
    /\ in_found' = <<>>
    /\ in_log' = <<>>
    /\ db_before' = db_docs
    /\ UNCHANGED <<db_exists, db_docs, batch_size>>

\* create_or_load_collection(chunks) is called, vectordb.py:19-25
CallCreateOrLoad ==
    /\ \E cs \in ChunkSets : BeginCall("create_or_load", cs, "get")
    /\ UNCHANGED <<chunkerVars, formatVars, videosVars, serialVars>>

\* vectordb.py:26-41: get_collection, count, and the comparison
GetCollection ==
    /\ in_pc = "get"
    /\ IF ~db_exists
       THEN /\ in_found' = <<>>
            /\ in_log' = Append(in_log, LogOp("get_collection"))
            /\ in_pc' = "create"
       ELSE /\ in_found' = <<Len(db_docs)>>
            /\ in_log' = in_log \o <<LogOp("get_collection"), LogOp("count")>>
            /\ in_pc' = IF UpToDate(Len(db_docs), Len(in_chunks))
                        THEN "returned" ELSE "delete"
    /\ UNCHANGED <<db_exists, db_docs, batch_size, in_kind, in_chunks, documents,
                   metadatas, ids, in_i, in_call, db_before, in_prev>>
    /\ UNCHANGED <<chunkerVars, formatVars, videosVars, serialVars>>

\* vectordb.py:38
DeleteCollection ==
    /\ in_pc = "delete"
    /\ db_exists' = FALSE
    /\ db_docs' = <<>>
    /\ in_log' = Append(in_log, LogOp("delete_collection"))
    /\ in_pc' = "create"
    /\ UNCHANGED <<batch_size, in_kind, in_chunks, documents, metadatas, ids,
                   in_i, in_call, in_found, db_before, in_prev>>
    /\ UNCHANGED <<chunkerVars, formatVars, videosVars, serialVars>>

\* vectordb.py:44
CreateCollection ==
    /\ in_pc = "create"
    /\ db_exists' = TRUE
    /\ db_docs' = <<>>
    /\ in_log' = Append(in_log, LogOp("create_collection"))
    /\ in_pc' = "prepare"
    /\ UNCHANGED <<batch_size, in_kind, in_chunks, documents, metadatas, ids,
                   in_i, in_call, in_found, db_before, in_prev>>
    /\ UNCHANGED <<chunkerVars, formatVars, videosVars, serialVars>>

PrepareSkippingMalformed ==
    /\ in_pc = "prepare"
    /\ LET good == SelectSeq(in_chunks, LAMBDA c : HasKeys(c, RequiredKeys))
       IN  /\ documents' = [k \in 1..Len(good) |-> good[k].text]
           /\ metadatas' = [k \in 1..Len(good) |-> Metadata(good[k])]
           /\ ids' = [k \in 1..Len(good) |-> Uuid4(in_call, k)]
    /\ in_pc' = "add"
    /\ in_i' = 0
    /\ UNCHANGED <<db_exists, db_docs, batch_size, in_kind, in_chunks, in_call,
                   in_found, in_log, db_before, in_prev>>
    /\ UNCHANGED <<chunkerVars, formatVars, videosVars, serialVars>>

\* vectordb.py:47-65: every record is prepared; a chunk without one of its
\* keys raises KeyError (the lists built so far are dropped with the frame)
Prepare ==
    /\ in_pc = "prepare"
    /\ IF AnyKeyError(in_chunks)
       THEN /\ in_pc' = "raised"
            /\ UNCHANGED <<documents, metadatas, ids>>
       ELSE /\ in_pc' = "add"
            /\ documents' = [k \in 1..Len(in_chunks) |-> in_chunks[k].text]
            /\ metadatas' = [k \in 1..Len(in_chunks) |-> Metadata(in_chunks[k])]
            /\ ids' = [k \in 1..Len(in_chunks) |-> Uuid4(in_call, k)]
    /\ in_i' = 0
    /\ UNCHANGED <<db_exists, db_docs, batch_size, in_kind, in_chunks, in_call,
                   in_found, in_log, db_before, in_prev>>
    /\ UNCHANGED <<chunkerVars, formatVars, videosVars, serialVars>>

\* one iteration of the batch loop, vectordb.py:69-76
AddBatch ==
    /\ in_pc = "add"
    /\ in_i < Len(documents)
    /\ LET end_idx == EndIdx(in_i, batch_size, Len(documents))
           ds == BatchSlice(documents, in_i, end_idx)
           ms == BatchSlice(metadatas, in_i, end_idx)
           is == BatchSlice(ids, in_i, end_idx)
       IN  /\ db_docs' = StoreAdd(db_docs, ds, ms, is)
           /\ in_log' = Append(in_log, LogAdd(ds, ms, is))
    /\ in_i' = in_i + batch_size
    /\ UNCHANGED <<db_exists, batch_size, in_kind, in_chunks, in_pc, documents,
                   metadatas, ids, in_call, in_found, db_before, in_prev>>
    /\ UNCHANGED <<chunkerVars, formatVars, videosVars, serialVars>>

\* the range is exhausted: return collection, vectordb.py:78
ReturnCollection ==
    /\ in_pc = "add"
    /\ in_i >= Len(documents)
    /\ in_pc' = "returned"
    /\ UNCHANGED <<db_exists, db_docs, batch_size, in_kind, in_chunks, documents,
                   metadatas, ids, in_i, in_call, in_found, in_log, db_before,
                   in_prev>>
    /\ UNCHANGED <<chunkerVars, formatVars, videosVars, serialVars>>

\* build_database() is called: the store directory is removed and made
\* anew, and the pickle file is loaded, build_db.py:15-32
CallBuildDatabase ==
    /\ \E cs \in ChunkSets : BeginCall("build_database", cs, "rmtree")
    /\ UNCHANGED <<chunkerVars, formatVars, videosVars, serialVars>>

\* build_db.py:17-23
Rmtree ==
    /\ in_pc = "rmtree"
    /\ db_exists' = FALSE
    /\ db_docs' = <<>>
    /\ in_log' = Append(in_log, LogOp("rmtree"))
    /\ in_pc' = "bd_create"
    /\ UNCHANGED <<batch_size, in_kind, in_chunks, documents, metadatas, ids,
                   in_i, in_call, in_found, db_before, in_prev>>
    /\ UNCHANGED <<chunkerVars, formatVars, videosVars, serialVars>>

\* build_db.py:36
BuildCreate ==
    /\ in_pc = "bd_create"
    /\ db_exists' = TRUE
    /\ db_docs' = <<>>
    /\ in_log' = Append(in_log, LogOp("create_collection"))
    /\ in_pc' = "bd_batch"
    /\ UNCHANGED <<batch_size, in_kind, in_chunks, documents, metadatas, ids,
                   in_i, in_call, in_found, db_before, in_prev>>
    /\ UNCHANGED <<chunkerVars, formatVars, videosVars, serialVars>>

\* one iteration of the batch loop, build_db.py:40-69: the records of this
\* batch are prepared, then added; a KeyError ends the call
BuildBatch ==
    /\ in_pc = "bd_batch"
    /\ in_i < Len(in_chunks)
    /\ LET end_idx == EndIdx(in_i, batch_size, Len(in_chunks))
           batch == BatchSlice(in_chunks, in_i, end_idx)
       IN  IF AnyKeyError(batch)
           THEN /\ in_pc' = "raised"
                /\ UNCHANGED <<db_docs, in_log, documents, metadatas, ids, in_i>>
           ELSE LET ds == [k \in 1..Len(batch) |-> batch[k].text]
                    ms == [k \in 1..Len(batch) |-> Metadata(batch[k])]
                    is == [k \in 1..Len(batch) |-> Uuid4(in_call, in_i + k)]
                IN  /\ db_docs' = StoreAdd(db_docs, ds, ms, is)
                    /\ in_log' = Append(in_log, LogAdd(ds, ms, is))
                    /\ documents' = ds /\ metadatas' = ms /\ ids' = is
                    /\ in_i' = in_i + batch_size
                    /\ in_pc' = "bd_batch"
    /\ UNCHANGED <<db_exists, batch_size, in_kind, in_chunks, in_call, in_found,
                   db_before, in_prev>>
    /\ UNCHANGED <<chunkerVars, formatVars, videosVars, serialVars>>

\* build_db.py:71-80: the count is printed, a test query made
BuildReturn ==
    /\ in_pc = "bd_batch"
    /\ in_i >= Len(in_chunks)
    /\ in_log' = in_log \o <<LogOp("count"), LogOp("query")>>
    /\ in_pc' = "returned"
    /\ UNCHANGED <<db_exists, db_docs, batch_size, in_kind, in_chunks, documents,
                   metadatas, ids, in_i, in_call, in_found, db_before, in_prev>>
    /\ UNCHANGED <<chunkerVars, formatVars, videosVars, serialVars>>

\* the process is killed in the middle of a call: the store stays as it is
Abort ==
    /\ in_pc \in {"get", "delete", "create", "prepare", "add",
                   "rmtree", "bd_create", "bd_batch"}
    /\ in_pc' = "aborted"
    /\ UNCHANGED <<db_exists, db_docs, batch_size, in_kind, in_chunks, documents,
                   metadatas, ids, in_i, in_call, in_found, in_log, db_before,
                   in_prev>>
    /\ UNCHANGED <<chunkerVars, formatVars, videosVars, serialVars>>

IngestNext ==
    \/ CallCreateOrLoad \/ GetCollection \/ DeleteCollection \/ CreateCollection
    \/ Prepare \/ AddBatch \/ ReturnCollection
    \/ CallBuildDatabase \/ Rmtree \/ BuildCreate \/ BuildBatch \/ BuildReturn
    \/ Abort

-----------------------------------------------------------------------------
(* Specifications: one per component, the other components idle *)

SpecChunkerInit == ChunkerInit /\ FormatIdle /\ VideosIdle /\ SerialIdle /\ IngestIdle
SpecChunker == SpecChunkerInit /\ [][ChunkerNext]_vars

\* The chunker called with the largest overlap of the model, so that the
\* first windows are no longer than the overlap, on captions of three words,
\* of none, and of irregular white space. It runs in one thread that nothing
\* suspends for ever: the for loop goes on to its next entry, and then to
\* the code after the loop.
SpecChunkerLiveInit ==
    /\ SpecChunkerInit
    /\ overlap = MaxOverlap
    /\ \A i \in 1..Len(transcript) : transcript[i].text # <<"d", " ", "e", " ", "f">>
SpecChunkerLive ==
    SpecChunkerLiveInit /\ [][ChunkerNext]_vars /\ WF_vars(ChunkerNext)

SpecFormatInit == FormatInit /\ ChunkerIdle /\ VideosIdle /\ SerialIdle /\ IngestIdle
SpecFormat == SpecFormatInit /\ [][FormatNext]_vars

SpecVideosInit == VideosInit /\ ChunkerIdle /\ FormatIdle /\ SerialIdle /\ IngestIdle
SpecVideos == SpecVideosInit /\ [][VideosNext]_vars

SpecSerialInit == SerialInit /\ ChunkerIdle /\ FormatIdle /\ VideosIdle /\ IngestIdle
SpecSerial == SpecSerialInit /\ [][SerialNext]_vars

SpecIngestInit == IngestInit /\ ChunkerIdle /\ FormatIdle /\ VideosIdle /\ SerialIdle
SpecIngest == SpecIngestInit /\ [][IngestNext]_vars

\* One run of either program: parse.py (process_videos, on a pool that
\* makes tasks queue) or the ingestion (vectordb.py, build_db.py); they are
\* separate processes.
SpecRunsInit ==
    /\ ChunkerIdle /\ FormatIdle /\ SerialIdle
    /\ \/ VideosInit /\ max_concurrent <= MaxWorkers /\ IngestOff
       \/ VideosIdle /\ IngestInit
SpecRunsNext == VideosNext \/ IngestNext
SpecRuns == SpecRunsInit /\ [][SpecRunsNext]_vars


-----------------------------------------------------------------------------
(* Claims about the chunker, checked under SpecChunker *)

\* the words of a list of entries, in order
RECURSIVE WordsOf(_)
WordsOf(entries) ==
    IF entries = <<>> THEN <<>>
    ELSE Split(entries[1].text) \o WordsOf(Tail(entries))

\* w occurs in s as a run of consecutive elements
IsInfix(w, s) ==
    \E k \in 0..(Len(s) - Len(w)) : SubSeq(s, k + 1, k + Len(w)) = w

\* the words chunk c adds to what the chunks before it hold: its text without
\* the words of the entries that were carried over from the previous window
NewWords(c) ==
    LET ws   == Split(chunks[c].text)
        dupl == Len(WordsOf(SubSeq(windows[c].entries, 1, windows[c].carried)))
    IN  SubSeq(ws, dupl + 1, Len(ws))

RECURSIVE NewWordsUpTo(_)
NewWordsUpTo(c) == IF c = 0 THEN <<>> ELSE NewWordsUpTo(c - 1) \o NewWords(c)

ScenarioTranscript ==
    << [text |-> <<"a", " ", "b", " ", "c">>, start |-> 0, duration |-> 50],
       [text |-> <<"d", " ", "e", " ", "f">>, start |-> 50, duration |-> 50] >>

ScenarioFirstChunk ==
    [text |-> <<"a", " ", "b", " ", "c", " ", "d", " ", "e", " ", "f">>,
     start_time |-> 0, end_time |-> 100,
     video_title |-> "title", video_url |-> "url", video_id |-> "url"]

\* C1: every chunk closed on reaching the target starts at the start of the
\* first entry of its accumulator and ends at start + duration of the entry
\* that closed it, also when that first entry starts at 0.0; the scenario of
\* the spec (target 4, overlap 1) yields {"a b c d e f", 0.0, 10.0} first.
C1_ClosedChunkSpansItsWindow ==
    /\ \A c \in 1..Len(chunks) :
          (~windows[c].final /\ chunk_size >= 1 /\ overlap >= 1) =>
             LET w == windows[c].entries
             IN  /\ chunks[c].start_time = w[1].start
                 /\ chunks[c].end_time = w[Len(w)].start + w[Len(w)].duration
    /\ (transcript = ScenarioTranscript /\ chunk_size = 4 /\ overlap = 1
          /\ ck_pc = "done")
        => chunks[1] = ScenarioFirstChunk

\* C2: for a non-empty transcript, target >= 1 and overlap >= 1, no text is
\* dropped: the words of every entry occur, in order, in the text of some
\* chunk, and the chunk texts without their overlap duplicates are the words
\* of the whole transcript.
C2_NoTextDropped ==
    (ck_pc = "done" /\ transcript # <<>> /\ chunk_size >= 1 /\ overlap >= 1)
    => /\ \A i \in 1..Len(transcript) :
            \E c \in 1..Len(chunks) :
               IsInfix(Split(transcript[i].text), Split(chunks[c].text))
       /\ NewWordsUpTo(Len(chunks)) = Split(JoinTexts(transcript))

\* a finished run with an overlap that duplicated words, over captions with
\* irregular white space
C2_Witness ==
    /\ ck_pc = "done" /\ chunk_size >= 1 /\ overlap >= 1
    /\ Len(chunks) >= 3
    /\ \E c \in 1..Len(chunks) : NewWords(c) # Split(chunks[c].text)
    /\ \E i \in 1..Len(transcript) : transcript[i].text = <<" ", "g", "\n", " ", "h">>

\* C3: every emitted chunk, closed on the target or final, has
\* end_time >= start_time, for any target and overlap.
C3_EndNotBeforeStart ==
    \A c \in 1..Len(chunks) : chunks[c].end_time >= chunks[c].start_time

\* a finished run that closed a chunk on the target at a later entry and
\* emitted a final chunk too
C3_Witness ==
    /\ ck_pc = "done"
    /\ \E c \in 1..Len(chunks) : ~windows[c].final /\ chunks[c].start_time > 0
    /\ \E c \in 1..Len(chunks) : windows[c].final

\* the loop has just closed a window on the target and seeded the next
\* accumulator; no further entry was read
JustClosed ==
    /\ ck_pc = "loop"
    /\ windows # <<>>
    /\ ~windows[Len(windows)].final
    /\ windows[Len(windows)].at = idx - 1

\* the last n entries of a list
LastEntries(lst, n) == SubSeq(lst, Len(lst) - n + 1, Len(lst))

\* C12: right after a window of k entries is closed, for any overlap >= 0,
\* the next accumulator holds exactly the last min(overlap, k) entries of the
\* window, its text is their texts joined by spaces and its start the start
\* of the earliest retained entry; an overlap of 0 carries nothing forward.
C12_SeedIsLastOverlapEntries ==
    (JustClosed /\ overlap >= 0 /\ chunk_size >= 1) =>
       LET w == windows[Len(windows)].entries
           n == Min(overlap, Len(w))
       IN  /\ current_chunk = LastEntries(w, n)
           /\ current_text = JoinTexts(LastEntries(w, n))
           /\ n > 0 => chunk_start = <<w[Len(w) - n + 1].start>>

\* the same for an overlap of at least one entry
SeedWhenOverlapPositive ==
    overlap >= 1 => C12_SeedIsLastOverlapEntries

\* For every window closed with overlap >= its number of entries: all its
\* entries are the next accumulator, the next entry (if any) closes the next
\* chunk at once, and the next chunk's text contains this chunk's text.
CarriesWholeWindow ==
    \A c \in 1..Len(chunks) :
       (~windows[c].final /\ overlap >= Len(windows[c].entries)) =>
          IF c = Len(chunks)
          THEN /\ ck_pc = "loop"
               /\ idx = windows[c].at + 1
               /\ current_chunk = windows[c].entries
               /\ Len(Split(current_text)) >= chunk_size
          ELSE /\ windows[c + 1].carried = Len(windows[c].entries)
               /\ IsInfix(chunks[c].text, chunks[c + 1].text)
               /\ IF windows[c + 1].final
                  THEN windows[c + 1].entries = windows[c].entries
                  ELSE /\ windows[c + 1].at = windows[c].at + 1
                       /\ windows[c + 1].entries
                            = Append(windows[c].entries, transcript[windows[c].at + 1])

\* process_single_video has left the chunking: returned or raised
ChunkerEnded == ck_pc \in {"done", "failed"}

\* C13: when overlap >= the number of entries of the window just closed, the
\* whole window carries forward unchanged, so the accumulator never shrinks:
\* each later chunk's text contains the previous chunk's entire text, every
\* subsequent entry closes another chunk, and on any finite input the
\* chunker still terminates.
C13_NoProgressButTerminates ==
    /\ []CarriesWholeWindow
    /\ <>ChunkerEnded

\* a finished run with overlap 2 that closed a window of one entry, then one
\* of two entries, each carried forward whole, and emitted them again as the
\* final chunk
C13_Witness ==
    /\ ck_pc = "done" /\ overlap = 2 /\ chunk_size >= 1
    /\ Len(transcript) = 2
    /\ Len(chunks) = 3
    /\ Len(windows[1].entries) = 1 /\ ~windows[1].final
    /\ Len(windows[2].entries) = 2 /\ ~windows[2].final
    /\ windows[3].final /\ windows[3].entries = windows[2].entries

-----------------------------------------------------------------------------
(* Claims about format_timestamp, checked under SpecFormat *)

\* the pieces of s between the separators sep
RECURSIVE Fields(_, _, _)
Fields(s, sep, cur) ==
    IF s = <<>> THEN <<cur>>
    ELSE IF Head(s) = sep THEN <<cur>> \o Fields(Tail(s), sep, <<>>)
    ELSE Fields(Tail(s), sep, Append(cur, Head(s)))

DigitValue(c) == CHOOSE d \in 0..9 : DigitChars[d + 1] = c

\* the number a string of decimal digits denotes
RECURSIVE Number(_)
Number(ds) ==
    IF ds = <<>> THEN 0
    ELSE 10 * Number(SubSeq(ds, 1, Len(ds) - 1)) + DigitValue(ds[Len(ds)])

\* C9: format_timestamp truncates: for seconds >= 0 the str is HH:MM:SS, two
\* digits at least per field, minutes and seconds in 0..59, and
\* hours*3600 + minutes*60 + seconds = floor(seconds); 3725.9 gives
\* "01:02:05" and 0 gives "00:00:00".
C9_FormatTruncates ==
    ft_pc = "returned" =>
       LET f == Fields(ft_out, ":", <<>>)
       IN  /\ Len(f) = 3
           /\ Len(f[1]) >= 2 /\ Len(f[2]) = 2 /\ Len(f[3]) = 2
           /\ \A k \in 1..3 : \A j \in 1..Len(f[k]) :
                 \E d \in 1..10 : DigitChars[d] = f[k][j]
           /\ Number(f[2]) \in 0..59
           /\ Number(f[3]) \in 0..59
           /\ Number(f[1]) * 3600 + Number(f[2]) * 60 + Number(f[3])
                 = ft_seconds \div 10
           /\ (ft_seconds = 37259 =>
                 ft_out = <<"0", "1", ":", "0", "2", ":", "0", "5">>)
           /\ (ft_seconds = 0 =>
                 ft_out = <<"0", "0", ":", "0", "0", ":", "0", "0">>)

\* 3725.9 has been formatted
C9_Witness == ft_pc = "returned" /\ ft_seconds = 37259 /\ Len(ft_out) = 8

-----------------------------------------------------------------------------
(* Claims about process_videos, checked under SpecVideos *)

\* the task's run of process_single_video failed: no metadata, the transcript
\* fetch raised, or the chunking raised on an entry without its keys
TaskFailed(t) ==
    \/ t.meta = None
    \/ ~t.fetched.ok
    \/ \E k \in 1..Len(t.fetched.entries) :
          ~HasKeys(t.fetched.entries[k], {"text", "start", "duration"})

\* C4: process_videos is failure-isolated: whatever subset of the per-URL
\* tasks fails, no exception escapes the call, and it returns exactly one
\* VideoResult per task that did not fail and none for those that did.
C4_FailureIsolated ==
    /\ pv_pc # "raised"
    /\ pv_pc = "returned" =>
          LET rs == pv_returned[1]
          IN  /\ Len(rs) = Cardinality({i \in 1..Len(tasks) : ~TaskFailed(tasks[i])})
              /\ \A u \in UrlPool :
                    Cardinality({j \in 1..Len(rs) : rs[j].metadata.url = u})
                      = Cardinality({i \in 1..Len(tasks) :
                                       tasks[i].url = u /\ ~TaskFailed(tasks[i])})

\* three URLs, the transcript fetch of the second raised, two results
C4_Witness ==
    /\ pv_pc = "returned"
    /\ Len(tasks) = 3
    /\ ~TaskFailed(tasks[1]) /\ ~TaskFailed(tasks[3])
    /\ tasks[2].meta # None /\ ~tasks[2].fetched.ok
    /\ Len(pv_returned[1]) = 2

\* C10: process_videos is a barrier: it has returned only when every URL's
\* task was submitted and has settled, and until then its caller holds no
\* result, partial or not.
C10_Barrier ==
    /\ pv_pc \in {"returned", "raised"} =>
          /\ Len(tasks) = Len(urls)
          /\ \A i \in 1..Len(tasks) : tasks[i].state = "done"
    /\ pv_returned # None =>
          /\ pv_pc = "returned"
          /\ \A i \in 1..Len(tasks) : tasks[i].state = "done"

\* a call over three URLs on two workers has returned
C10_Witness ==
    /\ pv_pc = "returned" /\ pv_returned # None
    /\ Len(urls) = 3 /\ max_concurrent = 2

\* C11: at every moment of process_videos at most max_concurrent tasks
\* execute, whatever the number of URLs; a task that would exceed the limit
\* stays queued until a worker is free.
C11_BoundedConcurrency ==
    /\ Cardinality(Running) <= max_concurrent
    /\ \A i \in 1..Len(tasks) : tasks[i].state \in {"queued", "running", "done"}

\* three URLs on two workers: two tasks execute and the third waits
C11_Witness ==
    /\ Len(urls) = 3 /\ max_concurrent = 2
    /\ Cardinality(Running) = 2
    /\ Queued = {3}

\* the URLs of the first i tasks whose run did not fail, in input order
RECURSIVE KeptUrls(_)
KeptUrls(i) ==
    IF i = 0 THEN <<>>
    ELSE KeptUrls(i - 1) \o (IF TaskFailed(tasks[i]) THEN <<>> ELSE <<urls[i]>>)

\* C17: the list process_videos returns keeps the input order of the URLs
\* that succeeded, whatever the order in which their tasks completed: it is
\* the input list mapped to results, the failed ones removed.
C17_InputOrderKept ==
    pv_pc = "returned" =>
       LET rs == pv_returned[1]
       IN  /\ [j \in 1..Len(rs) |-> rs[j].metadata.url] = KeptUrls(Len(urls))
           /\ \A j \in 1..Len(rs) :
                 \A c \in 1..Len(rs[j].chunks) :
                    rs[j].chunks[c].video_url = rs[j].metadata.url

\* three URLs, the second failed, and the task of the third URL completed
\* before the task of the first: the first URL's result still comes first
C17_Witness ==
    /\ pv_pc = "returned"
    /\ Len(urls) = 3 /\ urls[1] # urls[3]
    /\ ~TaskFailed(tasks[1]) /\ TaskFailed(tasks[2]) /\ ~TaskFailed(tasks[3])
    /\ tasks[3].fin < tasks[1].fin
    /\ Len(pv_returned[1]) = 2
    /\ pv_returned[1][1].metadata.url = urls[1]

-----------------------------------------------------------------------------
(* Claims about the serializer, checked under SpecSerial *)

\* the chunks lists of the results, one after the other in result order
RECURSIVE ConcatChunks(_)
ConcatChunks(results) ==
    IF results = <<>> THEN <<>>
    ELSE (IF "chunks" \in DOMAIN Head(results) THEN Head(results).chunks ELSE <<>>)
         \o ConcatChunks(Tail(results))

RECURSIVE SumChunkCounts(_)
SumChunkCounts(results) ==
    IF results = <<>> THEN 0
    ELSE (IF "chunks" \in DOMAIN Head(results) THEN Len(Head(results).chunks) ELSE 0)
         + SumChunkCounts(Tail(results))

\* C8: loading what save_processed_videos wrote returns the chunks lists of
\* the results concatenated in result order, every record field for field
\* the chunk that was produced, as many as the per-video counts add up to.
C8_SaveLoadRoundTrip ==
    sv_pc = "done" =>
       /\ sv_loaded[1] = ConcatChunks(sv_results)
       /\ Len(sv_loaded[1]) = SumChunkCounts(sv_results)
       /\ \A j \in 1..Len(sv_loaded[1]) :
             /\ DOMAIN sv_loaded[1][j] = {ChunkKeys[k] : k \in 1..Len(ChunkKeys)}
             /\ sv_loaded[1][j] \in ChunkPool

\* two videos, two different chunks in the first and in the second the
\* first of them again, saved and loaded
C8_Witness ==
    /\ sv_pc = "done"
    /\ Len(sv_results) = 2
    /\ "chunks" \in DOMAIN sv_results[1] /\ "chunks" \in DOMAIN sv_results[2]
    /\ Len(sv_results[1].chunks) = 2 /\ Len(sv_results[2].chunks) = 1
    /\ sv_results[1].chunks[1] # sv_results[1].chunks[2]
    /\ sv_results[2].chunks[1] # sv_results[1].chunks[2]
    /\ Len(sv_loaded[1]) = 3

-----------------------------------------------------------------------------
(* Claims about the ingestion, checked under SpecIngest *)

\* the add-calls of a log, and its calls that write to the store
AddCalls(log) == SelectSeq(log, LAMBDA e : e.op = "add")
WriteCalls(log) ==
    SelectSeq(log, LAMBDA e : e.op \in {"delete_collection", "create_collection",
                                         "add", "rmtree"})

StoredIds(docs) == {docs[j].id : j \in 1..Len(docs)}

\* record r of the store is chunk c: its text and its metadata fields
HoldsChunk(r, c) ==
    /\ r.document = c.text
    /\ r.metadata.video_title = c.video_title
    /\ r.metadata.video_url = c.video_url
    /\ r.metadata.video_id = c.video_id
    /\ r.metadata.start_time = c.start_time
    /\ r.metadata.end_time = c.end_time

\* the call is create_or_load_collection and found the collection with a
\* count other than len(chunks)
FoundMismatch ==
    /\ in_kind = "create_or_load"
    /\ in_found # <<>>
    /\ in_found[1] # Len(in_chunks)

\* C5: when create_or_load_collection finds the collection with a count other
\* than N = len(chunks), it deletes it, creates it anew and adds all N chunks:
\* on return the collection holds exactly the N new documents, in order, and
\* none of the records stored before.
C5_RebuildOnMismatch ==
    (FoundMismatch /\ in_pc = "returned") =>
       /\ Len(in_log) >= 4
       /\ [j \in 1..4 |-> in_log[j].op]
            = <<"get_collection", "count", "delete_collection", "create_collection">>
       /\ \A j \in 5..Len(in_log) : in_log[j].op = "add"
       /\ db_exists
       /\ Len(db_docs) = Len(in_chunks)
       /\ \A k \in 1..Len(db_docs) : HoldsChunk(db_docs[k], in_chunks[k])
       /\ StoredIds(db_docs) \cap StoredIds(db_before) = {}
       /\ Cardinality(StoredIds(db_docs)) = Len(in_chunks)

\* a returned call that replaced a non-empty collection of another size by
\* a non-empty one
C5_Witness ==
    /\ FoundMismatch /\ in_pc = "returned"
    /\ db_before # <<>>
    /\ Len(in_chunks) >= 2
    /\ Len(db_before) > Len(in_chunks)

\* C6: ingestion is idempotent on the count. A chunk set ingested into a
\* fresh store and then ingested again leaves its count N; and a call of
\* create_or_load_collection that finds the count equal to len(chunks)
\* returns at once with no delete, create or add call and the store as it
\* was, whatever the contents of the chunks.
C6_IdempotentOnCount ==
    /\ (/\ in_kind = "create_or_load" /\ in_pc = "returned"
         /\ in_call = 2
         /\ in_prev[1].outcome = "returned"
         /\ in_prev[1].chunks = in_chunks)
        => /\ Len(db_docs) = Len(in_chunks)
           /\ WriteCalls(in_log) = <<>>
    /\ (/\ in_kind = "create_or_load"
         /\ in_found = <<Len(in_chunks)>>)
        => /\ in_pc = "returned"
           /\ WriteCalls(in_log) = <<>>
           /\ db_exists
           /\ db_docs = db_before

\* the second ingest found the count of the first, while its chunks have
\* other contents than the stored ones
C6_Witness ==
    /\ in_kind = "create_or_load" /\ in_pc = "returned"
    /\ in_found = <<Len(in_chunks)>>
    /\ Len(in_chunks) >= 2
    /\ in_call = 2 /\ in_prev[1].outcome = "returned"
    /\ db_docs[1].document # in_chunks[1].text

\* the call (re)built the collection and returned
Rebuilt ==
    /\ in_pc = "returned"
    /\ \/ in_kind = "build_database"
       \/ in_kind = "create_or_load" /\ (in_found = <<>> \/ FoundMismatch)

\* C7: a (re)building ingest of N chunks with batch size B issues exactly
\* ceil(N/B) add-calls, in order, the i-th (from 0) carrying the chunks
\* [i*B, min((i+1)*B, N)) with ids, documents and metadatas aligned to the
\* same chunk; every call has B records but possibly the last (N mod B, or B
\* when that is 0), and N = 0 issues none.
C7_BatchPartition ==
    Rebuilt =>
       LET adds == AddCalls(in_log)
           N    == Len(in_chunks)
           B    == batch_size
       IN  /\ Len(adds) = (N + B - 1) \div B
           /\ N = 0 => adds = <<>>
           /\ \A i \in 0..(Len(adds) - 1) :
                 LET a  == adds[i + 1]
                     lo == i * B
                     hi == IF (i + 1) * B < N THEN (i + 1) * B ELSE N
                 IN  /\ Len(a.ids) = hi - lo
                     /\ Len(a.documents) = hi - lo
                     /\ Len(a.metadatas) = hi - lo
                     /\ i < Len(adds) - 1 => Len(a.ids) = B
                     /\ i = Len(adds) - 1 =>
                           Len(a.ids) = (IF N % B = 0 THEN B ELSE N % B)
                     /\ \A j \in 1..(hi - lo) :
                           /\ HoldsChunk([document |-> a.documents[j],
                                          metadata |-> a.metadatas[j]],
                                         in_chunks[lo + j])
                           /\ db_docs[lo + j].id = a.ids[j]
                           /\ HoldsChunk(db_docs[lo + j], in_chunks[lo + j])
           /\ Cardinality(StoredIds(db_docs)) = N

\* a rebuild of three chunks in batches of two: a full batch, then a short one
C7_Witness ==
    /\ Rebuilt
    /\ in_kind = "create_or_load"
    /\ Len(in_chunks) = 3 /\ batch_size = 2
    /\ Len(AddCalls(in_log)) = 2

\* the running call is create_or_load_collection on a chunk list with a
\* chunk that lacks a required field
MalformedCall == in_kind = "create_or_load" /\ AnyKeyError(in_chunks)

\* C15 as stated: if any chunk passed to create_or_load_collection lacks a
\* required field, the call fails with an error to its caller and issues no
\* add-call at all.
C15_MalformedAlwaysFails ==
    MalformedCall =>
       /\ AddCalls(in_log) = <<>>
       /\ in_pc # "returned"

\* C15, amended: if any chunk passed to create_or_load_collection lacks a
\* required field, the call issues no add-call at all, and it fails with an
\* error to its caller unless the collection already holds len(chunks)
\* documents: then it returns on the up-to-date path, the chunks unread and
\* the store untouched. When it fails, the old collection is already deleted
\* and an empty one created.
C15_MalformedFailsUnlessUpToDate ==
    MalformedCall =>
       /\ AddCalls(in_log) = <<>>
       /\ in_pc # "add"
       /\ in_pc = "returned" =>
             /\ in_found = <<Len(in_chunks)>>
             /\ WriteCalls(in_log) = <<>>
             /\ db_docs = db_before
       /\ in_pc = "raised" =>
             /\ in_found = <<>> \/ in_found[1] # Len(in_chunks)
             /\ db_exists /\ db_docs = <<>>
       /\ (in_found = <<>> \/ in_found[1] # Len(in_chunks)) => in_pc # "returned"

\* a list of several chunks, the last one malformed, met a collection of
\* another count: the call raised after deleting and creating, nothing added
C15_Witness ==
    /\ MalformedCall
    /\ in_pc = "raised"
    /\ Len(in_chunks) >= 2
    /\ in_found # <<>> /\ db_before # <<>>
    /\ AddCalls(in_log) = <<>>

\* create_or_load_collection runs on the N > 0 chunks of the call before it,
\* which was aborted after it had deleted or created the collection (or, for
\* build_database, removed the store) and made fewer than ceil(N/B) add-calls
Resumed ==
    /\ in_kind = "create_or_load"
    /\ in_prev # <<>>
    /\ in_prev[1].outcome = "aborted"
    /\ in_prev[1].chunks = in_chunks
    /\ Len(in_chunks) > 0
    /\ in_prev[1].made
    /\ in_prev[1].adds * batch_size < Len(in_chunks)

\* C14: ingestion is resumable. After an ingest of N > 0 chunks was aborted
\* past the deletion or creation of the collection, with k < ceil(N/B)
\* add-calls made, a later create_or_load_collection of the same chunks does
\* not take the up-to-date path, and when it returns the collection holds
\* exactly the N documents.
C14_Resumable ==
    Resumed =>
       /\ in_found # <<>> => in_found[1] # Len(in_chunks)
       /\ in_pc = "returned" =>
             /\ \E k \in 1..Len(in_log) : in_log[k].op = "create_collection"
             /\ Len(db_docs) = Len(in_chunks)
             /\ Cardinality(StoredIds(db_docs)) = Len(in_chunks)
             /\ \A k \in 1..Len(in_chunks) : HoldsChunk(db_docs[k], in_chunks[k])

\* three chunks in batches of two: the first ingest was killed after its
\* first add-call, the second found two documents, rebuilt and returned
C14_Witness ==
    /\ Resumed
    /\ in_pc = "returned"
    /\ Len(in_chunks) = 3 /\ batch_size = 2
    /\ Len(db_before) = 2 /\ in_found = <<2>>
    /\ Len(db_docs) = 3

-----------------------------------------------------------------------------
(* Claims about both programs, checked under SpecRuns *)

\* the identifiers submitted in the add-calls a and b of a log have none in common
DisjointAdds(adds, a, b) ==
    {adds[a].ids[j] : j \in 1..Len(adds[a].ids)}
       \cap {adds[b].ids[j] : j \in 1..Len(adds[b].ids)} = {}

\* C16: there is no retry. In one process_videos call every URL of the input
\* list is submitted exactly once, position by position (a URL listed twice
\* is two tasks), no task is run a second time, failed or not; and one ingest
\* call submits each batch to the store at most once.
C16_NoRetry ==
    /\ Len(tasks) <= Len(urls)
    /\ \A i \in 1..Len(tasks) :
          /\ tasks[i].url = urls[i]
          /\ tasks[i].runs = IF tasks[i].state = "queued" THEN 0 ELSE 1
    /\ pv_pc \in {"returned", "raised"} =>
          /\ Len(tasks) = Len(urls)
          /\ \A i \in 1..Len(tasks) : tasks[i].runs = 1
    /\ LET adds == AddCalls(in_log)
       IN  /\ \A a, b \in 1..Len(adds) : a # b => DisjointAdds(adds, a, b)
           /\ \A a \in 1..Len(adds) :
                 /\ adds[a].ids # <<>>
                 /\ \A j \in 1..Len(adds[a].ids) :
                       \E k \in 1..Len(in_chunks) :
                          /\ adds[a].ids[j] = Uuid4(in_call, k)
                          /\ adds[a].documents[j] = in_chunks[k].text
                          /\ k > (a - 1) * batch_size /\ k <= a * batch_size

\* a call over a list that names the same URL twice has returned; the first
\* of the two tasks failed and was run once, as was the second
C16_Witness ==
    /\ pv_pc = "returned"
    /\ Len(urls) = 3 /\ urls[1] = urls[2]
    /\ TaskFailed(tasks[1]) /\ ~TaskFailed(tasks[2])
    /\ tasks[1].runs = 1 /\ tasks[2].runs = 1
    /\ Len(pv_returned[1]) >= 1

=============================================================================
